---- MODULE Spec2Model ----
(***************************************************************************)
(* Model of the excalidraw-share backend: the filesystem storage engine    *)
(* (backend/src/storage.rs), the error-to-status mapping                   *)
(* (backend/src/error.rs), the bearer-token middleware                     *)
(* (backend/src/auth.rs) and the HTTP handlers and routers                 *)
(* (backend/src/routes.rs, backend/src/main.rs).                           *)
(*                                                                         *)
(* Strings are sequences of one-character strings.  A path is a sequence   *)
(* of components from the filesystem root, each component a string.  The   *)
(* filesystem is a function from the paths of the regular files that exist *)
(* to their content and birth time.                                        *)
(***************************************************************************)
EXTENDS Integers, Sequences, FiniteSets, TLC

VARIABLES
    fs,                 \* path -> [bytes, btime]: the regular files on disk
    now,                \* the wall clock (Utc::now, the filesystem's clock)
    created_supported,  \* whether the platform reports a file's birth time
    last,               \* the last storage operation and what it returned
    savedIds,           \* history: the raw identifiers passed to save
    deletedIds,         \* history: raw ids deleted, not saved again since
    deletedNames,       \* history: as deletedIds, cleared by a save to any alias
    written,            \* history: path -> what the last save to it stored and returned
    pid,                \* SpecPath: the identifier under test
    ppath,              \* SpecPath: what drawing_path made of it
    req,                \* SpecHttp: the last HTTP request
    resp,               \* SpecHttp: the response to it
    procs               \* SpecRace: the operations in progress, one per task

vars == <<fs, now, created_supported, last, savedIds, deletedIds,
          deletedNames, written, pid, ppath, req, resp, procs>>

storeVars == <<fs, now, created_supported, last, savedIds, deletedIds,
               deletedNames, written>>
pathVars == <<pid, ppath>>
httpVars == <<req, resp>>
raceVars == <<procs>>

-----------------------------------------------------------------------------
(* Bounds *)

MaxIdLen == 3       \* longest identifier drawing_path is applied to in SpecPath
MaxTime == 2        \* the clock runs 0..MaxTime

-----------------------------------------------------------------------------
(* Characters and strings *)

\* "U+00E9" stands for the one character e-acute: alphanumeric for
\* char::is_alphanumeric, outside ASCII.
AsciiLetters == {"a", "b", "Z"}
AsciiDigits == {"7"}
UnicodeAlphanumeric == {"U+00E9"}
Alphabet == AsciiLetters \cup AsciiDigits \cup UnicodeAlphanumeric
                \cup {"-", "_", ".", "/"}

\* The class the specification names: [A-Za-z0-9_-].
AsciiWord == AsciiLetters \cup AsciiDigits \cup {"-", "_"}

Strings(n) == UNION {[1..k -> Alphabet] : k \in 0..n}

Ids == Strings(MaxIdLen)

\* The subsequence of s whose characters satisfy keep, in order.
RECURSIVE Filter(_, _)
Filter(s, keep) ==
    IF s = <<>> THEN <<>>
    ELSE IF Head(s) \in keep THEN <<Head(s)>> \o Filter(Tail(s), keep)
    ELSE Filter(Tail(s), keep)

StartsWith(s, p) == Len(s) >= Len(p) /\ SubSeq(s, 1, Len(p)) = p

\* char::is_alphanumeric: Unicode Alphabetic or Numeric, not only ASCII.
is_alphanumeric(c) == c \in AsciiLetters \cup AsciiDigits \cup UnicodeAlphanumeric

-----------------------------------------------------------------------------
(* Paths *)

Root == <<>>
BasePath == << <<"d", "a", "t", "a">> >>      \* the configured data directory

JsonExt == <<"j", "s", "o", "n">>

\* str.split('/'): the pieces of s between slashes.
RECURSIVE SplitSlash(_, _)
SplitSlash(s, cur) ==
    IF s = <<>> THEN <<cur>>
    ELSE IF Head(s) = "/" THEN <<cur>> \o SplitSlash(Tail(s), <<>>)
    ELSE SplitSlash(Tail(s), Append(cur, Head(s)))

\* The file the operating system reaches through a path: empty and "."
\* components are skipped, ".." steps to the parent (the root is its own).
RECURSIVE Resolve(_, _)
Resolve(comps, acc) ==
    IF comps = <<>> THEN acc
    ELSE LET c == Head(comps) IN
         IF c = <<>> \/ c = <<".">> THEN Resolve(Tail(comps), acc)
         ELSE IF c = <<".", ".">>
              THEN Resolve(Tail(comps),
                           IF acc = <<>> THEN acc ELSE SubSeq(acc, 1, Len(acc) - 1))
         ELSE Resolve(Tail(comps), Append(acc, c))

\* PathBuf::join: a relative path is appended, an absolute one replaces.
Join(base, rel) ==
    IF rel # <<>> /\ Head(rel) = "/" THEN Resolve(SplitSlash(rel, <<>>), Root)
    ELSE Resolve(SplitSlash(rel, <<>>), base)

Parent(p) == SubSeq(p, 1, Len(p) - 1)
FileName(p) == p[Len(p)]

\* The characters of an identifier that drawing_path keeps.
SafeChars == {c \in Alphabet : is_alphanumeric(c) \/ c = "-" \/ c = "_"}

safe_id(id) == Filter(id, SafeChars)

\* The identifier put into the file name as it comes.
drawing_path_unsanitized(id) == Join(BasePath, id \o <<".">> \o JsonExt)

\* A filter that lets the dot through as well.
drawing_path_keeps_dots(id) ==
    Join(BasePath, Filter(id, SafeChars \cup {"."}) \o <<".">> \o JsonExt)

\* FileSystemStorage::drawing_path
drawing_path(id) == Join(BasePath, safe_id(id) \o <<".">> \o JsonExt)

-----------------------------------------------------------------------------
(* JSON documents *)

\* A document is the JSON object with an optional "type" member and an
\* optional "elements" member: the two members the upload handler reads.
TypeFields == {"absent", "excalidraw", "other"}
ElementsFields == {"absent", "[]", "[1]", "str"}

JsonValues == [type : TypeFields, elements : ElementsFields]

\* The serialized form is a sequence of JSON tokens, one per byte.
ElementsBytes(e) ==
    IF e = "[]" THEN <<"[", "]">>
    ELSE IF e = "[1]" THEN <<"[", "1", "]">>
    ELSE <<"'x'">>

TypeBytes(t) == IF t = "excalidraw" THEN <<"'excalidraw'">> ELSE <<"'other'">>

\* serde_json::to_vec: the members in key order, "elements" before "type".
to_vec(v) ==
    LET e == IF v.elements = "absent" THEN <<>>
             ELSE <<"'elements'", ":">> \o ElementsBytes(v.elements)
        t == IF v.type = "absent" THEN <<>>
             ELSE <<"'type'", ":">> \o TypeBytes(v.type)
        sep == IF e # <<>> /\ t # <<>> THEN <<",">> ELSE <<>>
    IN  <<"{">> \o e \o sep \o t \o <<"}">>

Ok(v) == [tag |-> "Ok", val |-> v]
Err(kind) == [tag |-> kind, val |-> "none"]

\* serde_json::from_slice: the value whose serialization the bytes are, or
\* a serde_json::Error (AppError::Json through the From impl, error.rs:22).
from_slice(bytes) ==
    IF \E v \in JsonValues : to_vec(v) = bytes
    THEN Ok(CHOOSE v \in JsonValues : to_vec(v) = bytes)
    ELSE Err("Json")

-----------------------------------------------------------------------------
(* The filesystem *)

NoFile == [present |-> FALSE, bytes |-> <<>>, btime |-> 0]
FileAt(f, path) ==
    IF path \in DOMAIN f
    THEN [present |-> TRUE, bytes |-> f[path].bytes, btime |-> f[path].btime]
    ELSE NoFile

\* tokio::fs::write: create the file or truncate it, then write all bytes.
\* A file that is truncated keeps its inode and with it its birth time.
fs_write(f, path, bytes, t) ==
    IF path \in DOMAIN f
    THEN [f EXCEPT ![path] = [bytes |-> bytes, btime |-> f[path].btime]]
    ELSE (path :> [bytes |-> bytes, btime |-> t]) @@ f

\* tokio::fs::remove_file
fs_remove_file(f, path) == [p \in DOMAIN f \ {path} |-> f[p]]

\* Path::exists
path_exists(f, path) == path \in DOMAIN f

\* tokio::fs::read_dir: the entries of the base directory, in any order.
DirEntries(f) == {p \in DOMAIN f : Len(p) > 0 /\ Parent(p) = BasePath}

ScanOrders(f) ==
    LET E == DirEntries(f)
        n == Cardinality(E)
    IN  {o \in [1..n -> E] : \A i, j \in 1..n : i # j => o[i] # o[j]}

\* The place of the last dot of a file name, 0 when it has none.
RECURSIVE LastDot(_, _)
LastDot(name, i) ==
    IF i = 0 THEN 0 ELSE IF name[i] = "." THEN i ELSE LastDot(name, i - 1)

None == [some |-> FALSE, v |-> <<>>]
Some(x) == [some |-> TRUE, v |-> x]

\* Path::extension: none for "..", for a name without a dot, and for a name
\* whose only dot is its first character; else what follows the last dot.
extension(path) ==
    LET name == FileName(path)
        k == LastDot(name, Len(name))
    IN  IF name = <<".", ".">> \/ k <= 1 THEN None
        ELSE Some(SubSeq(name, k + 1, Len(name)))

\* A file stem that keeps the extension.
file_stem_keeps_extension(path) == Some(FileName(path))

\* Path::file_stem: the name itself in the cases extension is none, else
\* what precedes the last dot.
file_stem(path) ==
    LET name == FileName(path)
        k == LastDot(name, Len(name))
    IN  IF name = <<".", ".">> \/ k <= 1 THEN Some(name)
        ELSE Some(SubSeq(name, 1, k - 1))

-----------------------------------------------------------------------------
(* The storage engine: impl DrawingStorage for FileSystemStorage *)

UNIX_EPOCH == 0

DrawingMeta(id, created_at, size_bytes) ==
    [id |-> id, created_at |-> created_at, size_bytes |-> size_bytes]

\* A save that writes where the raw identifier points.
save_raw_path(f, t, id, data) ==
    LET path == Join(BasePath, id \o <<".">> \o JsonExt)
        json_bytes == to_vec(data)
    IN  [fs |-> fs_write(f, path, json_bytes, t),
         res |-> Ok(DrawingMeta(id, t, Len(json_bytes)))]

\* A save that leaves the file of an existing document as it is.
save_create_only(f, t, id, data) ==
    LET path == drawing_path(id)
        json_bytes == to_vec(data)
    IN  [fs |-> IF path \in DOMAIN f THEN f ELSE fs_write(f, path, json_bytes, t),
         res |-> Ok(DrawingMeta(id, t, Len(json_bytes)))]

\* A save that reports the size the file had before the write.
save_stale_size(f, t, id, data) ==
    LET path == drawing_path(id)
        json_bytes == to_vec(data)
        size_bytes == Len(FileAt(f, path).bytes)
    IN  [fs |-> fs_write(f, path, json_bytes, t),
         res |-> Ok(DrawingMeta(id, t, size_bytes))]

\* FileSystemStorage::save
save(f, t, id, data) ==
    LET path == drawing_path(id)
        json_bytes == to_vec(data)
        size_bytes == Len(json_bytes)
    IN  [fs |-> fs_write(f, path, json_bytes, t),
         res |-> Ok(DrawingMeta(id, t, size_bytes))]

\* A load without the existence check: the read fails with an I/O error.
load_unchecked(f, id) ==
    LET path == drawing_path(id) IN
    IF ~path_exists(f, path) THEN Err("Storage")
    ELSE from_slice(f[path].bytes)

\* FileSystemStorage::load
load(f, id) ==
    LET path == drawing_path(id) IN
    IF ~path_exists(f, path) THEN Err("NotFound")
    ELSE from_slice(f[path].bytes)

\* A delete that reports success without removing the file.
delete_keeps_file(f, id) ==
    LET path == drawing_path(id) IN
    IF ~path_exists(f, path) THEN [fs |-> f, res |-> Err("NotFound")]
    ELSE [fs |-> f, res |-> Ok("unit")]

\* A delete that removes the whole data directory's content.
delete_clears_dir(f, id) ==
    LET path == drawing_path(id) IN
    IF ~path_exists(f, path) THEN [fs |-> f, res |-> Err("NotFound")]
    ELSE [fs |-> [p \in DOMAIN f \ DirEntries(f) |-> f[p]], res |-> Ok("unit")]

\* FileSystemStorage::delete
delete(f, id) ==
    LET path == drawing_path(id) IN
    IF ~path_exists(f, path) THEN [fs |-> f, res |-> Err("NotFound")]
    ELSE [fs |-> fs_remove_file(f, path), res |-> Ok("unit")]

\* An existence check on the path built from the identifier as given.
exists_raw_path(f, id) == Ok(path_exists(f, drawing_path_unsanitized(id)))

\* FileSystemStorage::exists
exists(f, id) == Ok(path_exists(f, drawing_path(id)))

\* metadata.created().unwrap_or(UNIX_EPOCH)
created_or_epoch(file, supported) == IF supported THEN file.btime ELSE UNIX_EPOCH

\* The loop of list: one DrawingMeta per scanned entry whose extension is
\* "json", in scan order.
RECURSIVE scan(_, _, _)
scan(f, order, supported) ==
    IF order = <<>> THEN <<>>
    ELSE LET path == Head(order)
             rest == scan(f, Tail(order), supported)
         IN  IF extension(path) = Some(JsonExt)
             THEN <<DrawingMeta(file_stem(path).v,
                                created_or_epoch(f[path], supported),
                                Len(f[path].bytes))>> \o rest
             ELSE rest

\* x placed behind every entry that does not compare greater than it under
\* |a, b| b.created_at.cmp(&a.created_at): slice::sort_by is stable.
RECURSIVE insert_desc(_, _)
insert_desc(sorted, x) ==
    IF sorted = <<>> THEN <<x>>
    ELSE IF Head(sorted).created_at >= x.created_at
         THEN <<Head(sorted)>> \o insert_desc(Tail(sorted), x)
         ELSE <<x>> \o sorted

RECURSIVE insert_asc(_, _)
insert_asc(sorted, x) ==
    IF sorted = <<>> THEN <<x>>
    ELSE IF Head(sorted).created_at <= x.created_at
         THEN <<Head(sorted)>> \o insert_asc(Tail(sorted), x)
         ELSE <<x>> \o sorted

RECURSIVE sort_into(_, _)
sort_into(sorted, drawings) ==
    IF drawings = <<>> THEN sorted
    ELSE sort_into(insert_desc(sorted, Head(drawings)), Tail(drawings))

RECURSIVE sort_into_asc(_, _)
sort_into_asc(sorted, drawings) ==
    IF drawings = <<>> THEN sorted
    ELSE sort_into_asc(insert_asc(sorted, Head(drawings)), Tail(drawings))

\* A sort with the comparison the other way round: oldest first.
sort_by_created_asc(drawings) == sort_into_asc(<<>>, drawings)

\* drawings.sort_by(|a, b| b.created_at.cmp(&a.created_at))
sort_by_created_desc(drawings) == sort_into(<<>>, drawings)

\* FileSystemStorage::list, for one order in which read_dir yields the entries
list(f, order, supported) == Ok(sort_by_created_desc(scan(f, order, supported)))

-----------------------------------------------------------------------------
(* Spec: callers of the storage engine, one operation at a time *)

\* The identifiers the callers pass: two plain ones, one that differs from
\* "b" only by characters the engine strips, one that is stripped to nothing.
StoreIds == {<<"a">>, <<"b">>, <<".", ".", "/", "b">>, <<".", ".", "/">>}

StoreDocs == {[type |-> "excalidraw", elements |-> "[]"],
              [type |-> "excalidraw", elements |-> "[1]"]}

NoDoc == [type |-> "absent", elements |-> "absent"]
NoReq == [kind |-> "none", auth |-> None, id |-> <<>>,
          body |-> [data |-> NoDoc, id |-> None]]
NoResp == [status |-> 0, err |-> "none", body |-> "none"]
EmptyDir == [p \in {} |-> NoFile]
NoneWritten == [p \in {} |-> [doc |-> NoDoc, size_bytes |-> 0]]
NoProcs == <<>>

\* What a caller sees of one operation: the operation, its arguments, its
\* result, the path it acted on and the file that was there before.
Observed(op, id, doc, res, before) ==
    [op |-> op, id |-> id, doc |-> doc, res |-> res,
     path |-> drawing_path(id), before |-> before]

InitObserved ==
    /\ last = Observed("init", <<>>, NoDoc, Ok("unit"), NoFile)
    /\ savedIds = {}
    /\ deletedIds = {}
    /\ deletedNames = {}
    /\ written = NoneWritten
    /\ ppath = None
    /\ req = NoReq
    /\ resp = NoResp
    /\ procs = NoProcs

InitIdle ==
    /\ InitObserved
    /\ pid = <<>>

Init ==
    /\ fs = EmptyDir
    /\ now = 0
    /\ created_supported = TRUE
    /\ InitIdle

SaveStep(id, data) ==
    LET r == save(fs, now, id, data) IN
    /\ fs' = r.fs
    /\ last' = Observed("save", id, data, r.res, FileAt(fs, drawing_path(id)))
    /\ written' = IF r.res.tag = "Ok"
                  THEN (drawing_path(id) :>
                           [doc |-> data, size_bytes |-> r.res.val.size_bytes])
                       @@ written
                  ELSE written
    /\ UNCHANGED <<now, created_supported, pathVars, httpVars, raceVars>>

DeleteStep(id) ==
    LET r == delete(fs, id) IN
    /\ fs' = r.fs
    /\ last' = Observed("delete", id, NoDoc, r.res, FileAt(fs, drawing_path(id)))
    /\ written' = IF r.res.tag = "Ok"
                  THEN [p \in DOMAIN written \ {drawing_path(id)} |-> written[p]]
                  ELSE written
    /\ UNCHANGED <<now, created_supported, pathVars, httpVars, raceVars>>

Save(id, data) ==
    /\ SaveStep(id, data)
    /\ savedIds' = savedIds \cup {id}
    /\ deletedIds' = deletedIds \ {id}
    /\ deletedNames' = {x \in deletedNames : safe_id(x) # safe_id(id)}

Load(id) ==
    /\ last' = Observed("load", id, NoDoc, load(fs, id), FileAt(fs, drawing_path(id)))
    /\ UNCHANGED <<fs, now, created_supported, savedIds, deletedIds, deletedNames,
                   written, pathVars, httpVars, raceVars>>

Delete(id) ==
    /\ DeleteStep(id)
    /\ savedIds' = savedIds
    /\ deletedIds' = IF delete(fs, id).res.tag = "Ok"
                     THEN deletedIds \cup {id} ELSE deletedIds
    /\ deletedNames' = IF delete(fs, id).res.tag = "Ok"
                       THEN deletedNames \cup {id} ELSE deletedNames

Exists(id) ==
    /\ last' = Observed("exists", id, NoDoc, exists(fs, id), FileAt(fs, drawing_path(id)))
    /\ UNCHANGED <<fs, now, created_supported, savedIds, deletedIds, deletedNames,
                   written, pathVars, httpVars, raceVars>>

List ==
    \E order \in ScanOrders(fs) :
        /\ last' = Observed("list", <<>>, NoDoc, list(fs, order, created_supported), NoFile)
        /\ UNCHANGED <<fs, now, created_supported, savedIds, deletedIds,
                       deletedNames, written, pathVars, httpVars, raceVars>>

SaveAny == \E id \in StoreIds, data \in StoreDocs : Save(id, data)
LoadAny == \E id \in StoreIds : Load(id)
DeleteAny == \E id \in StoreIds : Delete(id)
ExistsAny == \E id \in StoreIds : Exists(id)

Next == SaveAny \/ LoadAny \/ DeleteAny \/ ExistsAny \/ List

Spec == Init /\ [][Next]_vars

-----------------------------------------------------------------------------
(* SpecClock: saves, deletes and listings while time passes *)

ClockIds == {<<"a">>, <<"b">>, <<"Z">>}
ClockDoc == [type |-> "excalidraw", elements |-> "[]"]

Tick ==
    /\ now < MaxTime
    /\ now' = now + 1
    /\ UNCHANGED <<fs, created_supported, last, savedIds, deletedIds, deletedNames,
                   written, pathVars, httpVars, raceVars>>

SaveClock ==
    \E id \in ClockIds :
        SaveStep(id, ClockDoc) /\ UNCHANGED <<savedIds, deletedIds, deletedNames>>

DeleteClock ==
    \E id \in ClockIds :
        DeleteStep(id) /\ UNCHANGED <<savedIds, deletedIds, deletedNames>>

NextClock == SaveClock \/ DeleteClock \/ List \/ Tick

\* Std reports a file's creation time where the platform and the filesystem
\* have one, and an error elsewhere.
InitClock ==
    /\ fs = EmptyDir
    /\ now = 0
    /\ created_supported \in BOOLEAN
    /\ InitIdle

SpecClock == InitClock /\ [][NextClock]_vars

-----------------------------------------------------------------------------
(* SpecPath: drawing_path applied to every identifier up to MaxIdLen *)

InitPath ==
    /\ fs = EmptyDir
    /\ now = 0
    /\ created_supported = TRUE
    /\ InitObserved
    /\ pid \in Ids

ComputePath ==
    /\ ~ppath.some
    /\ ppath' = Some(drawing_path(pid))
    /\ UNCHANGED <<pid, storeVars, httpVars, raceVars>>

NextPath == ComputePath

SpecPath == InitPath /\ [][NextPath]_vars

-----------------------------------------------------------------------------
(* The HTTP layer: error.rs, auth.rs, routes.rs, main.rs *)

\* impl IntoResponse for AppError: the status of each error kind.
into_response(err) ==
    CASE err = "NotFound" -> 404
      [] err = "Unauthorized" -> 401
      [] err = "BadRequest" -> 400
      [] err = "PayloadTooLarge" -> 413
      [] err = "Storage" -> 500
      [] err = "Json" -> 400
      [] err = "Internal" -> 500

Bearer == <<"B", "e", "a", "r", "e", "r", " ">>
ApiKey == <<"k">>                   \* the configured --api-key
BaseUrl == <<"h", "/">>             \* the configured --base-url

\* A middleware that is content with the scheme.
api_key_middleware_scheme_only(api_key, auth_header) ==
    auth_header.some /\ StartsWith(auth_header.v, Bearer)

\* api_key_middleware: TRUE when the request goes on to the handler
\* (next.run), FALSE when it is answered with 401.
api_key_middleware(api_key, auth_header) ==
    IF auth_header.some /\ StartsWith(auth_header.v, Bearer)
    THEN LET token == SubSeq(auth_header.v, 8, Len(auth_header.v))
         IN  token = api_key
    ELSE FALSE

\* str::trim_end_matches('/')
RECURSIVE trim_end_slashes(_)
trim_end_slashes(s) ==
    IF s # <<>> /\ s[Len(s)] = "/" THEN trim_end_slashes(SubSeq(s, 1, Len(s) - 1))
    ELSE s

Response(status, err, body) == [status |-> status, err |-> err, body |-> body]
Failure(err) == Response(into_response(err), err, "none")
Handled(f, response) == [fs |-> f, resp |-> response]

\* Uuid::new_v4 cut to its first group, and cut to twelve digits with the
\* hyphens removed: hexadecimal strings, shortened here.
ShortIds == {<<"a">>, <<"b">>}
LongIds == {<<"a", "b">>}

\* An upload handler without the check of "elements".
upload_drawing_unchecked_elements(f, t, body, new_id, fallback_id) ==
    LET doc_type == IF body.data.type = "absent" THEN "" ELSE body.data.type IN
    IF doc_type # "excalidraw" THEN Handled(f, Failure("BadRequest"))
    ELSE LET id == IF body.id.some THEN body.id.v
                   ELSE IF exists(f, new_id).val THEN fallback_id ELSE new_id
             r == save(f, t, id, body.data)
             url == trim_end_slashes(BaseUrl) \o <<"/", "d", "/">> \o id
         IN  Handled(r.fs, Response(IF body.id.some THEN 200 ELSE 201, "none",
                                    [id |-> id, url |-> url]))

\* upload_drawing, for the identifiers new_id and fallback_id that the
\* random generator yields when the request names none.  The handler hands
\* save the request's source_path as well; the save of storage.rs takes an
\* identifier and a document and stores nothing else.
upload_drawing(f, t, body, new_id, fallback_id) ==
    LET doc_type == IF body.data.type = "absent" THEN "" ELSE body.data.type IN
    IF doc_type # "excalidraw" THEN Handled(f, Failure("BadRequest"))
    ELSE IF body.data.elements \notin {"[]", "[1]"} THEN Handled(f, Failure("BadRequest"))
    ELSE LET is_update == body.id.some
             id == IF body.id.some THEN body.id.v
                   ELSE IF exists(f, new_id).val THEN fallback_id ELSE new_id
             r == save(f, t, id, body.data)
             url == trim_end_slashes(BaseUrl) \o <<"/", "d", "/">> \o id
         IN  IF r.res.tag # "Ok" THEN Handled(f, Failure(r.res.tag))
             ELSE Handled(r.fs, Response(IF is_update THEN 200 ELSE 201, "none",
                                         [id |-> id, url |-> url]))

\* get_drawing
get_drawing(f, id) ==
    LET r == load(f, id) IN
    IF r.tag = "Ok" THEN Handled(f, Response(200, "none", r.val))
    ELSE Handled(f, Failure(r.tag))

\* delete_drawing
delete_drawing(f, id) ==
    LET r == delete(f, id) IN
    IF r.res.tag = "Ok" THEN Handled(r.fs, Response(204, "none", "none"))
    ELSE Handled(f, Failure(r.res.tag))

\* list_drawings
list_drawings(f, order, supported) ==
    Handled(f, Response(200, "none", list(f, order, supported).val))

\* list_drawings_public: the identifier and the creation time of each entry
RECURSIVE public_meta(_)
public_meta(drawings) ==
    IF drawings = <<>> THEN <<>>
    ELSE <<[id |-> Head(drawings).id, created_at |-> Head(drawings).created_at]>>
         \o public_meta(Tail(drawings))

list_drawings_public(f, order, supported) ==
    Handled(f, Response(200, "none", public_meta(list(f, order, supported).val)))

\* health
health(f) == Handled(f, Response(200, "none", "ok"))

\* main: the routes of protected_api, behind the middleware's route_layer.
ProtectedRoutes == {"upload", "delete", "list"}
\* main: the routes of public_api.
PublicRoutes == {"health", "public_list", "view"}

\* The handler a matched route runs.
dispatch(f, t, supported, r, order, new_id, fallback_id) ==
    CASE r.kind = "upload" -> upload_drawing(f, t, r.body, new_id, fallback_id)
      [] r.kind = "delete" -> delete_drawing(f, r.id)
      [] r.kind = "list" -> list_drawings(f, order, supported)
      [] r.kind = "public_list" -> list_drawings_public(f, order, supported)
      [] r.kind = "view" -> get_drawing(f, r.id)
      [] r.kind = "health" -> health(f)

\* main: the merged router.  The middleware answers a protected route
\* itself (StatusCode::UNAUTHORIZED) unless the token matches.
serve(f, t, supported, r, order, new_id, fallback_id) ==
    IF r.kind \in ProtectedRoutes /\ ~api_key_middleware(ApiKey, r.auth)
    THEN Handled(f, Response(401, "none", "none"))
    ELSE dispatch(f, t, supported, r, order, new_id, fallback_id)

-----------------------------------------------------------------------------
(* SpecHttp: clients of the HTTP API, one request at a time *)

\* Authorization headers: none, the right one, a wrong token, the key with a
\* character behind it, an empty token, the key without the scheme, the
\* scheme in lower case.
AuthHeaders ==
    {None, Some(Bearer \o ApiKey), Some(Bearer \o <<"x">>),
     Some(Bearer \o ApiKey \o <<"x">>), Some(Bearer), Some(ApiKey),
     Some(<<"b", "e", "a", "r", "e", "r", " ">> \o ApiKey)}

HttpIds == {<<"a">>, <<"b">>, <<".", ".", "/", "b">>}

HttpBodies ==
    [data : StoreDocs \cup {[type |-> "other", elements |-> "[]"],
                            [type |-> "absent", elements |-> "[1]"],
                            [type |-> "excalidraw", elements |-> "absent"],
                            [type |-> "excalidraw", elements |-> "str"]},
     id : {None} \cup {Some(i) : i \in {<<"b">>, <<".", ".", "/", "b">>}}]

NoBody == [data |-> NoDoc, id |-> None]

HttpRequest(kind, auth, id, body) ==
    [kind |-> kind, auth |-> auth, id |-> id, body |-> body]

\* The data directory as the server finds it: empty, or holding the file of
\* document "a" cut short by an interrupted write.
TornBytes == <<"{">>
InitialDirs ==
    {EmptyDir,
     (drawing_path(<<"a">>) :> [bytes |-> TornBytes, btime |-> 0]) @@ EmptyDir}

InitHttp ==
    /\ fs \in InitialDirs
    /\ now = 0
    /\ created_supported = TRUE
    /\ InitIdle

Answer(r, h) ==
    /\ fs' = h.fs
    /\ req' = r
    /\ resp' = h.resp
    /\ UNCHANGED <<now, created_supported, last, savedIds, deletedIds,
                   deletedNames, written, pathVars, raceVars>>

\* POST /api/upload
Upload ==
    \E auth \in AuthHeaders, body \in HttpBodies, new_id \in ShortIds,
       fallback_id \in LongIds :
        LET r == HttpRequest("upload", auth, <<>>, body) IN
        Answer(r, serve(fs, now, created_supported, r, <<>>, new_id, fallback_id))

\* DELETE /api/drawings/{id}
DeleteDrawing ==
    \E auth \in AuthHeaders, id \in HttpIds :
        LET r == HttpRequest("delete", auth, id, NoBody) IN
        Answer(r, serve(fs, now, created_supported, r, <<>>, <<>>, <<>>))

\* GET /api/view/{id}
View ==
    \E auth \in AuthHeaders, id \in HttpIds :
        LET r == HttpRequest("view", auth, id, NoBody) IN
        Answer(r, serve(fs, now, created_supported, r, <<>>, <<>>, <<>>))

\* GET /api/drawings
ListDrawings ==
    \E auth \in AuthHeaders, order \in ScanOrders(fs) :
        LET r == HttpRequest("list", auth, <<>>, NoBody) IN
        Answer(r, serve(fs, now, created_supported, r, order, <<>>, <<>>))

\* GET /api/public/drawings
ListPublic ==
    \E auth \in AuthHeaders, order \in ScanOrders(fs) :
        LET r == HttpRequest("public_list", auth, <<>>, NoBody) IN
        Answer(r, serve(fs, now, created_supported, r, order, <<>>, <<>>))

\* GET /api/health
Health ==
    \E auth \in AuthHeaders :
        LET r == HttpRequest("health", auth, <<>>, NoBody) IN
        Answer(r, serve(fs, now, created_supported, r, <<>>, <<>>, <<>>))

NextHttp == Upload \/ DeleteDrawing \/ View \/ ListDrawings \/ ListPublic \/ Health

SpecHttp == InitHttp /\ [][NextHttp]_vars

-----------------------------------------------------------------------------
(* SpecRace: two tasks run storage operations on one data directory, one   *)
(* await of the engine at a time                                           *)

Procs == {"p", "q"}

RaceId == <<"a">>
RaceOld == [type |-> "excalidraw", elements |-> "[]"]
RaceNew == [type |-> "excalidraw", elements |-> "[1]"]

\* The data directory after save("a", RaceOld) and save("b", RaceOld).
RaceDir ==
    save(save(EmptyDir, 0, <<"a">>, RaceOld).fs, 0, <<"b">>, RaceOld).fs

\* The two system calls of fs::write: File::create, which creates the file
\* or truncates it, and write_all on the open file, which reaches no path
\* when the file was unlinked in between.
fs_create(f, path, t) == fs_write(f, path, <<>>, t)
fs_write_all(f, path, bytes) ==
    IF path \in DOMAIN f
    THEN [f EXCEPT ![path] = [bytes |-> bytes, btime |-> f[path].btime]]
    ELSE f

\* A task: the operation it runs, its arguments, the await it stands at,
\* the entries list has still to visit and the metadata it has collected.
Task(op, id, doc, pc, res, todo, acc) ==
    [op |-> op, id |-> id, doc |-> doc, pc |-> pc, res |-> res,
     todo |-> todo, acc |-> acc]
IdleTask == Task("none", <<>>, NoDoc, "idle", Ok("unit"), <<>>, <<>>)

InitRace ==
    /\ fs = RaceDir
    /\ now = 0
    /\ created_supported = TRUE
    /\ last = Observed("init", <<>>, NoDoc, Ok("unit"), NoFile)
    /\ savedIds = {}
    /\ deletedIds = {}
    /\ deletedNames = {}
    /\ written = NoneWritten
    /\ pid = <<>>
    /\ ppath = None
    /\ req = NoReq
    /\ resp = NoResp
    /\ procs = [p \in Procs |-> IdleTask]

RaceFrame ==
    UNCHANGED <<now, created_supported, last, savedIds, deletedIds, deletedNames,
                written, pathVars, httpVars>>

At(p, op, pc) == procs[p].op = op /\ procs[p].pc = pc
Goto(p, pc) == procs' = [procs EXCEPT ![p].pc = pc]
Return(p, res) == procs' = [procs EXCEPT ![p].pc = "done", ![p].res = res]

\* A task calls save, load, delete or list.
CallSave(p) ==
    /\ procs[p].pc = "idle"
    /\ procs' = [procs EXCEPT ![p] = Task("save", RaceId, RaceNew, "write",
                                          Ok("unit"), <<>>, <<>>)]
    /\ UNCHANGED fs /\ RaceFrame

CallLoad(p) ==
    /\ procs[p].pc = "idle"
    /\ procs' = [procs EXCEPT ![p] = Task("load", RaceId, NoDoc, "exists",
                                          Ok("unit"), <<>>, <<>>)]
    /\ UNCHANGED fs /\ RaceFrame

CallDelete(p) ==
    /\ procs[p].pc = "idle"
    /\ procs' = [procs EXCEPT ![p] = Task("delete", RaceId, NoDoc, "exists",
                                          Ok("unit"), <<>>, <<>>)]
    /\ UNCHANGED fs /\ RaceFrame

CallList(p) ==
    /\ procs[p].pc = "idle"
    /\ procs' = [procs EXCEPT ![p] = Task("list", <<>>, NoDoc, "read_dir",
                                          Ok("unit"), <<>>, <<>>)]
    /\ UNCHANGED fs /\ RaceFrame

\* save: fs::write opens the file, creating or truncating it ...
SaveCreate(p) ==
    /\ At(p, "save", "write")
    /\ fs' = fs_create(fs, drawing_path(procs[p].id), now)
    /\ Goto(p, "write_all")
    /\ RaceFrame

\* ... and writes the serialized document; save returns the metadata.
SaveWriteAll(p) ==
    /\ At(p, "save", "write_all")
    /\ fs' = fs_write_all(fs, drawing_path(procs[p].id), to_vec(procs[p].doc))
    /\ Return(p, Ok(DrawingMeta(procs[p].id, now, Len(to_vec(procs[p].doc)))))
    /\ RaceFrame

\* load: if !path.exists() { return Err(NotFound) }
LoadExists(p) ==
    /\ At(p, "load", "exists")
    /\ IF path_exists(fs, drawing_path(procs[p].id))
       THEN Goto(p, "read")
       ELSE Return(p, Err("NotFound"))
    /\ UNCHANGED fs /\ RaceFrame

\* load: fs::read(&path).await? and from_slice; the io::Error of a missing
\* file becomes AppError::Storage.
LoadRead(p) ==
    /\ At(p, "load", "read")
    /\ IF path_exists(fs, drawing_path(procs[p].id))
       THEN Return(p, from_slice(fs[drawing_path(procs[p].id)].bytes))
       ELSE Return(p, Err("Storage"))
    /\ UNCHANGED fs /\ RaceFrame

\* delete: if !path.exists() { return Err(NotFound) }
DeleteExists(p) ==
    /\ At(p, "delete", "exists")
    /\ IF path_exists(fs, drawing_path(procs[p].id))
       THEN Goto(p, "remove_file")
       ELSE Return(p, Err("NotFound"))
    /\ UNCHANGED fs /\ RaceFrame

\* delete: fs::remove_file(&path).await?
DeleteRemove(p) ==
    /\ At(p, "delete", "remove_file")
    /\ IF path_exists(fs, drawing_path(procs[p].id))
       THEN /\ fs' = fs_remove_file(fs, drawing_path(procs[p].id))
            /\ Return(p, Ok("unit"))
       ELSE /\ fs' = fs
            /\ Return(p, Err("Storage"))
    /\ RaceFrame

\* list: fs::read_dir reads the directory's entries, in any order.
ListReadDir(p) ==
    /\ At(p, "list", "read_dir")
    /\ \E order \in ScanOrders(fs) :
          procs' = [procs EXCEPT ![p].pc = "next_entry", ![p].todo = order]
    /\ UNCHANGED fs /\ RaceFrame

\* list: one turn of the loop: next_entry, and for a .json entry
\* entry.metadata().await?, which fails when the file is there no more.
ListEntry(p) ==
    /\ At(p, "list", "next_entry")
    /\ procs[p].todo # <<>>
    /\ LET path == Head(procs[p].todo) IN
       IF extension(path) # Some(JsonExt)
       THEN procs' = [procs EXCEPT ![p].todo = Tail(@)]
       ELSE IF ~path_exists(fs, path)
       THEN Return(p, Err("Storage"))
       ELSE procs' = [procs EXCEPT ![p].todo = Tail(@),
                                   ![p].acc = @ \o scan(fs, <<path>>, created_supported)]
    /\ UNCHANGED fs /\ RaceFrame

\* list: the loop ends, the entries are sorted and returned.
ListReturn(p) ==
    /\ At(p, "list", "next_entry")
    /\ procs[p].todo = <<>>
    /\ Return(p, Ok(sort_by_created_desc(procs[p].acc)))
    /\ UNCHANGED fs /\ RaceFrame

Call == \E p \in Procs : CallSave(p) \/ CallLoad(p) \/ CallDelete(p) \/ CallList(p)
SaveRun == \E p \in Procs : SaveCreate(p) \/ SaveWriteAll(p)
LoadRun == \E p \in Procs : LoadExists(p) \/ LoadRead(p)
DeleteRun == \E p \in Procs : DeleteExists(p) \/ DeleteRemove(p)
ListRun == \E p \in Procs : ListReadDir(p) \/ ListEntry(p) \/ ListReturn(p)

NextRace == Call \/ SaveRun \/ LoadRun \/ DeleteRun \/ ListRun

SpecRace == InitRace /\ [][NextRace]_vars

-----------------------------------------------------------------------------
(* Claims *)

\* C1: in every state a save(id, d) leaves behind, the save has succeeded
\* and load(id) succeeds and returns d.
C1_SaveThenLoad ==
    last.op = "save" =>
        /\ last.res.tag = "Ok"
        /\ load(fs, last.id).tag = "Ok"
        /\ load(fs, last.id).val = last.doc

\* C1 witness: a save under an identifier that loses characters, over a
\* different document, after which load returns what was saved.
C1_Witness ==
    /\ last.op = "save"
    /\ safe_id(last.id) # last.id
    /\ last.before.present
    /\ last.before.bytes # to_vec(last.doc)
    /\ load(fs, last.id).tag = "Ok"
    /\ load(fs, last.id).val = last.doc

\* C2: a save to an identifier whose file exists succeeds, the load that
\* follows returns the new document, and the directory holds the same files
\* as before: the old content is replaced, not kept beside the new one.
C2_Overwrite ==
    [][(last'.op = "save" /\ path_exists(fs, last'.path)) =>
          /\ last'.res.tag = "Ok"
          /\ load(fs', last'.id).tag = "Ok"
          /\ load(fs', last'.id).val = last'.doc
          /\ DOMAIN fs' = DOMAIN fs]_vars

\* C2 witness: a second save has replaced a different document, and load
\* returns the second one.
C2_Witness ==
    /\ last.op = "save"
    /\ last.before.present
    /\ from_slice(last.before.bytes).tag = "Ok"
    /\ from_slice(last.before.bytes).val # last.doc
    /\ load(fs, last.id).val = last.doc

Absent(f, id) ==
    /\ exists(f, id).tag = "Ok"
    /\ exists(f, id).val = FALSE
    /\ load(f, id).tag = "NotFound"
    /\ delete(f, id).res.tag = "NotFound"

\* C3 as claimed: an identifier that was never passed to save is absent
\* (exists is false, load and delete fail with NotFound), whatever was saved
\* or deleted under other identifiers.
C3_NeverSavedAbsent_Original ==
    \A id \in StoreIds \ savedIds : Absent(fs, id)

NoAliasSaved(id) == \A s \in savedIds : safe_id(s) # safe_id(id)

\* C3 as amended: an identifier is absent when neither it nor any
\* identifier with the same sanitized form was ever passed to save.
C3_NeverSavedAbsent ==
    \A id \in StoreIds : NoAliasSaved(id) => Absent(fs, id)

\* C3 witness: after saves and deletes under other identifiers, a delete of
\* an identifier never saved under any alias has failed with NotFound.
C3_Witness ==
    /\ last.op = "delete"
    /\ NoAliasSaved(last.id)
    /\ last.res.tag = "NotFound"
    /\ savedIds # {}
    /\ deletedIds # {}

Gone(f, id) ==
    /\ exists(f, id).val = FALSE
    /\ load(f, id).tag = "NotFound"
    /\ get_drawing(f, id).resp.status = 404

\* C4 as claimed: after a successful delete(id), until the next save to that
\* identifier, exists(id) is false and load(id) fails with NotFound, which
\* the view route answers with 404.
C4_DeletedStaysGone_Original ==
    \A id \in deletedIds : Gone(fs, id)

\* C4 as amended: the same, until the next save to that identifier or to any
\* identifier with the same sanitized form.
C4_DeletedStaysGone ==
    \A id \in deletedNames : Gone(fs, id)

\* C4 witness: a load of a deleted identifier has failed with NotFound while
\* another document is stored.
C4_Witness ==
    /\ last.op = "load"
    /\ last.id \in deletedNames
    /\ last.res.tag = "NotFound"
    /\ DOMAIN fs # {}

\* C5: the path drawing_path gives save, load, delete and exists is a direct
\* child of the base directory, for every identifier.
C5_PathConfined ==
    ppath.some =>
        /\ Len(ppath.v) = Len(BasePath) + 1
        /\ Parent(ppath.v) = BasePath
        /\ \A i \in 1..Len(FileName(ppath.v)) : FileName(ppath.v)[i] # "/"
        /\ FileName(ppath.v) \notin {<<".">>, <<".", ".">>}

\* C5 witness: the path of the identifier "../".
C5_Witness ==
    /\ ppath.some
    /\ pid = <<".", ".", "/">>

InAsciiWord(c) == c \in AsciiWord
InUnicodeWord(c) == c \in AsciiWord \cup UnicodeAlphanumeric

Listed(metas, id) ==
    \E i \in 1..Len(metas) : drawing_path(metas[i].id) = drawing_path(id)

\* C7 as claimed: what list returns has an entry for every stored document,
\* those whose identifier sanitizes to the empty string included.
C7_ListComplete ==
    last.op = "list" =>
        /\ last.res.tag = "Ok"
        /\ \A id \in StoreIds :
               (exists(fs, id).val /\ load(fs, id).tag = "Ok")
                   => Listed(last.res.val, id)

Position(metas, id) == CHOOSE i \in 1..Len(metas) : metas[i].id = id

NonIncreasing(metas) ==
    \A i \in 1..(Len(metas) - 1) : metas[i].created_at >= metas[i + 1].created_at

NewerFirst(f, metas) ==
    \A p, q \in DirEntries(f) :
        f[p].btime < f[q].btime
            => Position(metas, file_stem(q).v) < Position(metas, file_stem(p).v)

\* C8 as claimed: every list result is in non-increasing order of created_at,
\* and of two documents first saved at distinct times the later one comes
\* first.
C8_ListOrder_Original ==
    last.op = "list" =>
        /\ NonIncreasing(last.res.val)
        /\ NewerFirst(fs, last.res.val)

\* C8 as amended: every list result is in non-increasing order of created_at;
\* where the filesystem reports creation times, of two documents first saved
\* at distinct times the later one comes first.
C8_ListOrder ==
    last.op = "list" =>
        /\ NonIncreasing(last.res.val)
        /\ created_supported => NewerFirst(fs, last.res.val)

\* C8 witness: a listing of three documents saved at three distinct times.
C8_Witness ==
    /\ last.op = "list"
    /\ created_supported
    /\ Len(last.res.val) = 3
    /\ last.res.val[1].created_at > last.res.val[2].created_at
    /\ last.res.val[2].created_at > last.res.val[3].created_at

Authorized(r) == r.auth = Some(Bearer \o ApiKey)

\* C9: a request changes the stored documents only when its Authorization
\* header is "Bearer " followed by exactly the API key; an upload, delete or
\* list request with any other header is answered 401 and changes nothing;
\* a view of a stored document is answered 200 with the document, whatever
\* its header.
C9_AccessGating ==
    [][/\ fs' # fs => Authorized(req')
       /\ (req'.kind \in {"upload", "delete", "list"} /\ ~Authorized(req'))
              => (resp'.status = 401 /\ fs' = fs)
       /\ (req'.kind = "view" /\ load(fs, req'.id).tag = "Ok")
              => (resp'.status = 200 /\ resp'.body = load(fs, req'.id).val
                  /\ fs' = fs)]_vars

\* C9 witness: a delete of a stored document with a wrong token was answered
\* 401 and the document is still there.
C9_Witness ==
    /\ req.kind = "delete"
    /\ req.auth = Some(Bearer \o <<"x">>)
    /\ resp.status = 401
    /\ load(fs, req.id).tag = "Ok"

\* C10 as claimed: NotFound is answered 404, a validation failure 400, every
\* other failure of a storage operation 500.
C10_ErrorStatus ==
    /\ resp.err = "NotFound" => resp.status = 404
    /\ resp.err = "BadRequest" => resp.status = 400
    /\ resp.err \in {"Storage", "Json", "Internal"} => resp.status = 500

ValidUpload(data) == data.type = "excalidraw" /\ data.elements \in {"[]", "[1]"}

\* C11: an upload that reaches the handler with a payload whose "type" is not
\* "excalidraw" or whose "elements" is missing or no array is answered 400,
\* and no file is created, changed or removed, whether or not the request
\* names an identifier.
C11_ValidationBeforeStorage ==
    [][(req'.kind = "upload" /\ Authorized(req') /\ ~ValidUpload(req'.body.data))
          => (resp'.status = 400 /\ resp'.err = "BadRequest" /\ fs' = fs)]_vars

\* C11 witness: an upload without "elements" that names a stored document
\* was answered 400 and the document is what it was.
C11_Witness ==
    /\ req.kind = "upload"
    /\ Authorized(req)
    /\ req.body.data = [type |-> "excalidraw", elements |-> "absent"]
    /\ req.body.id = Some(<<"b">>)
    /\ resp.status = 400
    /\ load(fs, <<"b">>).tag = "Ok"

\* C12: a successful upload that stores a document under an identifier that
\* held none answers 201, one that overwrites the stored document named by
\* the request's id answers 200, an id in the request is accepted only when a
\* document is stored under it, and the response carries the identifier and
\* the base URL followed by /d/<id>.
C12_CreateVersusUpdate ==
    [][(req'.kind = "upload" /\ resp'.status \in {200, 201})
          => LET id == resp'.body.id
                 existed == path_exists(fs, drawing_path(id))
             IN  /\ ~existed => resp'.status = 201
                 /\ (existed /\ req'.body.id.some) => resp'.status = 200
                 /\ req'.body.id.some => (existed /\ id = req'.body.id.v)
                 /\ resp'.body.url = <<"h", "/", "d", "/">> \o id]_vars

\* C16: a successful upload whose request names no identifier stores its
\* document under an identifier that no stored file was using when it saved,
\* so it overwrites nothing, also when the first generated identifier was
\* taken and the fallback was used.
C16_FreshIdentifier ==
    [][(req'.kind = "upload" /\ ~req'.body.id.some /\ resp'.status \in {200, 201})
          => ~path_exists(fs, drawing_path(resp'.body.id))]_vars

Aliases(id) == {id2 \in StoreIds : safe_id(id2) = safe_id(id)}

\* C17: identifiers that sanitize to the same string name one document: after
\* a save under one of them, load under each of them returns the saved
\* document and exists is true for each (so a save under one replaces what
\* load under the other returns), and after a delete under one of them exists
\* is false for each.
C17_Aliasing ==
    /\ (last.op = "save" /\ last.res.tag = "Ok")
          => \A id2 \in Aliases(last.id) :
                /\ load(fs, id2).tag = "Ok"
                /\ load(fs, id2).val = last.doc
                /\ exists(fs, id2).val
    /\ (last.op = "delete" /\ last.res.tag = "Ok")
          => \A id2 \in Aliases(last.id) : ~exists(fs, id2).val

\* C17 witness: a save under "../b" has replaced the other document that was
\* stored under "b", and load of "b" returns the new one.
C17_Witness ==
    /\ last.op = "save"
    /\ last.id = <<".", ".", "/", "b">>
    /\ <<"b">> \in savedIds
    /\ last.before.present
    /\ last.before.bytes # to_vec(last.doc)
    /\ load(fs, <<"b">>).tag = "Ok"
    /\ load(fs, <<"b">>).val = last.doc

\* C18: load, exists and list leave every stored file as it is; save and
\* delete leave every file other than the one at the sanitized identifier's
\* path as it is, present with the same content or absent; a load or delete
\* that fails with NotFound leaves every file as it is.
C18_Frame ==
    [][/\ last'.op \in {"load", "exists", "list"} => fs' = fs
       /\ last'.op \in {"save", "delete"}
             => \A p \in (DOMAIN fs \cup DOMAIN fs') \ {drawing_path(last'.id)} :
                   FileAt(fs', p) = FileAt(fs, p)
       /\ (last'.op \in {"load", "delete"} /\ last'.res.tag = "NotFound")
             => fs' = fs]_vars

\* C18 witness: document "b" was deleted while document "a" is stored.
C18_Witness ==
    /\ last.op = "delete"
    /\ last.res.tag = "Ok"
    /\ safe_id(last.id) = <<"b">>
    /\ load(fs, <<"a">>).tag = "Ok"

\* C19: with no operation in progress, every entry of a list result names a
\* document that exists and that load returns as the document most recently
\* saved to the entry's file, the entry's identifier is unchanged by
\* sanitization, and no two entries carry the same identifier.
C19_ListedIdsUsable ==
    (last.op = "list" /\ last.res.tag = "Ok")
       => LET entries == last.res.val IN
          /\ \A i \in 1..Len(entries) :
                LET id == entries[i].id IN
                /\ safe_id(id) = id
                /\ exists(fs, id).val
                /\ load(fs, id).tag = "Ok"
                /\ drawing_path(id) \in DOMAIN written
                /\ load(fs, id).val = written[drawing_path(id)].doc
          /\ \A i, j \in 1..Len(entries) :
                entries[i].id = entries[j].id => i = j

\* C19 witness: a listing of two documents, one of them saved only under
\* "../b" and listed as "b".
C19_Witness ==
    /\ last.op = "list"
    /\ Len(last.res.val) = 2
    /\ <<".", ".", "/", "b">> \in savedIds
    /\ <<"b">> \notin savedIds
    /\ \E i \in 1..2 : last.res.val[i].id = <<"b">>

\* C20: the size_bytes a save returns is the length of the serialized
\* document, which is the length of the file it wrote; with no operation in
\* progress, the size_bytes of every list entry is the size_bytes that the
\* most recent successful save to the entry's file returned.
C20_SizeConsistent ==
    /\ (last.op = "save" /\ last.res.tag = "Ok")
          => /\ last.res.val.size_bytes = Len(to_vec(last.doc))
             /\ last.res.val.size_bytes = Len(FileAt(fs, last.path).bytes)
    /\ (last.op = "list" /\ last.res.tag = "Ok")
          => \A i \in 1..Len(last.res.val) :
                LET e == last.res.val[i] IN
                /\ drawing_path(e.id) \in DOMAIN written
                /\ e.size_bytes = written[drawing_path(e.id)].size_bytes

\* C20 witness: a listing of document "a", stored last with the shorter of
\* the two documents, reports the shorter length.
C20_Witness ==
    /\ last.op = "list"
    /\ Len(last.res.val) = 1
    /\ last.res.val[1].id = <<"a">>
    /\ written[drawing_path(<<"a">>)].doc = [type |-> "excalidraw", elements |-> "[]"]
    /\ last.res.val[1].size_bytes = Len(to_vec([type |-> "excalidraw", elements |-> "[]"]))
    /\ last.res.val[1].size_bytes < Len(to_vec([type |-> "excalidraw", elements |-> "[1]"]))

Done(p, op) == procs[p].op = op /\ procs[p].pc = "done"

\* C13: a load of a stored document that runs while a save overwrites the
\* document returns the old document or the new one in full, never an error
\* and never other content.
C13_NoTornRead ==
    \A p, q \in Procs :
        (Done(p, "load") /\ procs[q].op = "save" /\ procs[q].id = procs[p].id)
           => /\ procs[p].res.tag = "Ok"
              /\ procs[p].res.val \in {RaceOld, procs[q].doc}

\* What list reported of the stored documents before any task ran.
RaceEntry(id) == DrawingMeta(id, 0, Len(to_vec(RaceOld)))

\* C14: a list that runs while a delete removes document "a" succeeds, and
\* its result holds the complete entry of "a" (identifier, size and creation
\* time as before the delete) or no entry of "a", next to the entry of "b".
C14_ListRacingDelete ==
    \A p, q \in Procs :
        (Done(p, "list") /\ procs[q].op = "delete")
           => /\ procs[p].res.tag = "Ok"
              /\ \A i \in 1..Len(procs[p].res.val) :
                    procs[p].res.val[i] \in {RaceEntry(<<"a">>), RaceEntry(<<"b">>)}
              /\ \E i \in 1..Len(procs[p].res.val) :
                    procs[p].res.val[i] = RaceEntry(<<"b">>)

\* C15: a load or delete that runs while a delete removes the same document
\* succeeds or fails with NotFound, never with a storage error, and of two
\* deletes of one document exactly one succeeds and the other fails with
\* NotFound.
C15_AbsentIsNotFound ==
    \A p, q \in Procs :
        /\ (p # q /\ procs[p].op \in {"load", "delete"} /\ procs[p].pc = "done"
                  /\ procs[q].op = "delete")
              => procs[p].res.tag \in {"Ok", "NotFound"}
        /\ (p # q /\ Done(p, "delete") /\ Done(q, "delete"))
              => {procs[p].res.tag, procs[q].res.tag} = {"Ok", "NotFound"}

====
